---- MODULE Spec2Model ----
(***************************************************************************)
(* Adaptive interview session engine of ai-interview-platform.             *)
(*                                                                         *)
(* The model covers the two routers that drive a timed two-round session   *)
(* (backend/app/routers/mock_interview.py and candidate_interview.py) and  *)
(* the pure helpers of backend/app/services/ai_service.py they call.       *)
(*                                                                         *)
(* Each request handler is an asyncio coroutine: the code between two      *)
(* awaits runs without interruption, and other requests interleave at the  *)
(* awaits.  One action of the model is one such block: the completion of   *)
(* an awaited call (a MongoDB operation takes effect, an LLM call returns) *)
(* together with the local code that follows it up to the next await.      *)
(*                                                                         *)
(* Time is counted in units of 2 seconds (UnitsPerMinute units a minute),  *)
(* scores in tenths of a point (the code rounds both to one decimal).      *)
(***************************************************************************)
EXTENDS Integers, Sequences, FiniteSets, TLC

\* ---------------------------------------------------------------- bounds

\* Wall-clock horizon, in time units.
MaxNow == 180
\* A client starts a submit only while the session holds fewer responses.
MaxResponses == 4
\* Requests received in one run; one that arrives while another is in flight
\* counts twice.
MaxRequests == 5
\* Sessions a user of the mock router starts.  (The candidate router creates
\* a session only where its lookup finds none to resume.)
MaxSessions == 1

\* Time units per minute (one unit is 2 seconds).
UnitsPerMinute == 30
\* Time between two requests (the candidate reads and answers).
ThinkSteps == {89}
\* Time a generation or scoring call takes when it does not return at once.
LatencySteps == {60}
\* duration_minutes of the session (the schema's minimum).
Durations == {5}
\* overall_score values an evaluation may carry, in tenths.
Scores == {400, 700}
\* The concurrent request slots.
Clients == {"c1", "c2"}
\* The two routers.
Variants == {"mock", "candidate"}
\* difficulty of a start request (mock router; the candidate router fixes medium).
StartDifficulties == {"medium"}

\* ------------------------------------------------------------- constants

\* Python's None for a nullable number or string field.
None == -1
\* httpx.Timeout(120.0, ...) of the generation client, in time units.
LLMTimeout == 60
\* TECH_CUTOFF = 70.0, in tenths.
TECH_CUTOFF == 700

\* ------------------------------------------------------------ arithmetic

Max(a, b) == IF a >= b THEN a ELSE b

\* Python's round() of the exact quotient n/d (n >= 0, d > 0) to an integer:
\* to nearest, ties to even.
RoundHalfEven(n, d) ==
    LET q == n \div d
        r == n % d
    IN  IF 2 * r < d THEN q
        ELSE IF 2 * r > d THEN q + 1
        ELSE IF q % 2 = 0 THEN q ELSE q + 1

RECURSIVE SumOverall(_)
SumOverall(rs) ==
    IF rs = << >> THEN 0 ELSE Head(rs).overall + SumOverall(Tail(rs))

\* ai_service.calculate_round_score: round(sum/len, 1), 0.0 when empty.
calculate_round_score(responses) ==
    IF responses = << >> THEN 0
    ELSE RoundHalfEven(SumOverall(responses), Len(responses))

\* ai_service.should_proceed_to_hr
should_proceed_to_hr(technical_score, cutoff) == technical_score >= cutoff

\* An adapter that keeps the current difficulty in the middle tier.
determine_next_difficulty_sticky(last_score, current_difficulty) ==
    IF last_score >= 800 THEN "hard"
    ELSE IF last_score >= 500 THEN current_difficulty
    ELSE "easy"

\* ai_service.determine_next_difficulty (current_difficulty is ignored).
determine_next_difficulty(last_score, current_difficulty) ==
    IF last_score >= 800 THEN "hard"
    ELSE IF last_score >= 500 THEN "medium"
    ELSE "easy"

Min(a, b) == IF a <= b THEN a ELSE b

\* A clock that does not subtract the processing overhead.
check_time_status_wall(start_time, duration_minutes, processing, t) ==
    LET wall_elapsed == t - start_time
        active_elapsed == Max(0, wall_elapsed)
        remaining == Max(0, duration_minutes * UnitsPerMinute - active_elapsed)
    IN  [ checked_at |-> t,
          active |-> active_elapsed,
          elapsed_minutes |-> RoundHalfEven(active_elapsed * 10, UnitsPerMinute),
          remaining |-> remaining,
          remaining_minutes |-> RoundHalfEven(remaining * 10, UnitsPerMinute),
          is_expired |-> remaining <= 0,
          is_wrap_up |-> 0 < remaining /\ remaining < 2 * UnitsPerMinute,
          progress_pct |-> Min(1000, RoundHalfEven(active_elapsed * 1000,
                                   Max(duration_minutes, 1) * UnitsPerMinute)) ]

\* A clock whose wrap-up window includes its ends.
check_time_status_inclusive(start_time, duration_minutes, processing, t) ==
    LET wall_elapsed == t - start_time
        active_elapsed == Max(0, wall_elapsed - processing)
        remaining == Max(0, duration_minutes * UnitsPerMinute - active_elapsed)
    IN  [ checked_at |-> t,
          active |-> active_elapsed,
          elapsed_minutes |-> RoundHalfEven(active_elapsed * 10, UnitsPerMinute),
          remaining |-> remaining,
          remaining_minutes |-> RoundHalfEven(remaining * 10, UnitsPerMinute),
          is_expired |-> remaining <= 0,
          is_wrap_up |-> 0 <= remaining /\ remaining <= 2 * UnitsPerMinute,
          progress_pct |-> Min(1000, RoundHalfEven(active_elapsed * 1000,
                                   Max(duration_minutes, 1) * UnitsPerMinute)) ]

\* ai_service.check_time_status evaluated at wall time t.  active and
\* remaining are the unrounded locals (in time units); elapsed_minutes and
\* remaining_minutes are round(.., 1) in tenths of a minute, progress_pct is
\* in tenths of a percent.
check_time_status(start_time, duration_minutes, processing, t) ==
    LET wall_elapsed == t - start_time
        active_elapsed == Max(0, wall_elapsed - processing)
        remaining == Max(0, duration_minutes * UnitsPerMinute - active_elapsed)
    IN  [ checked_at |-> t,
          active |-> active_elapsed,
          elapsed_minutes |-> RoundHalfEven(active_elapsed * 10, UnitsPerMinute),
          remaining |-> remaining,
          remaining_minutes |-> RoundHalfEven(remaining * 10, UnitsPerMinute),
          is_expired |-> remaining <= 0,
          is_wrap_up |-> 0 < remaining /\ remaining < 2 * UnitsPerMinute,
          progress_pct |-> Min(1000, RoundHalfEven(active_elapsed * 1000,
                                   Max(duration_minutes, 1) * UnitsPerMinute)) ]

\* The responses whose question is stored with the given round
\* (the tech_responses / hr_responses comprehensions).
RoundResponses(responses, questions, round) ==
    SelectSeq(responses, LAMBDA r :
        \E i \in DOMAIN questions :
            questions[i].question_id = r.question_id /\ questions[i].round = round)


\* ----------------------------------------------------------------- state

VARIABLES
    variant,           \* which router serves the session: "mock" or "candidate"
    coding,            \* the is_coding flag the question generator returns in this run
    now,               \* wall clock (datetime.utcnow / time.time), in time units
    sessions,          \* the session collection, in insertion order
    candidate_status,  \* status of the candidate document (candidate router)
    next_uuid,         \* source of fresh question identifiers (uuid.uuid4)
    req,               \* per client: the request in flight and its locals
    requests,          \* the requests received so far, as counted against MaxRequests
    response           \* what start, submit or end returned most recently (HTTP 200)

vars == << variant, coding, now, sessions, candidate_status, next_uuid, req, requests, response >>

\* A string field that holds None.
NoReason == "None"
NoQ == [ round_type |-> "None", is_coding |-> FALSE ]
NoTime == check_time_status(0, 0, 0, 0)
NoResult == [ reason |-> NoReason, next_question |-> 0 ]
NoSnap == [ status |-> "none" ]

Result(reason, next_question) ==
    [ reason |-> reason, next_question |-> next_question ]

\* A client with no request in flight.
IdleReq ==
    [ op |-> "idle", pc |-> "idle", sid |-> 0, snap |-> NoSnap,
      question_id |-> 0, is_coding |-> FALSE,
      processing_start |-> 0, processing_time |-> 0, proc_total |-> 0,
      overall |-> None, next_q_data |-> NoQ, time_status |-> NoTime,
      current_round |-> "None", tech_score |-> None ]

\* question_doc / next_question_doc.  The field question stands for the
\* generated text: it records the round_type of the Selector call that
\* produced it.
QuestionDoc(qid, difficulty, round, q_data) ==
    [ question_id |-> qid, difficulty |-> difficulty, round |-> round,
      is_coding |-> q_data.is_coding, question |-> q_data.round_type ]

\* response_doc
ResponseDoc(qid, overall) == [ question_id |-> qid, overall |-> overall ]

\* session_doc / ai_session_doc as inserted by start.
SessionDoc(duration, difficulty, questions, processing, t) ==
    [ status |-> "in_progress", current_round |-> "Technical",
      duration_minutes |-> duration, difficulty |-> difficulty,
      questions |-> questions, responses |-> << >>,
      current_question_index |-> 0,
      technical_score |-> None, hr_score |-> None,
      processing_time_total |-> processing,
      started_at |-> t, completed_at |-> None,
      termination_reason |-> NoReason ]

Init ==
    /\ variant \in Variants
    /\ coding \in BOOLEAN
    /\ now = 0
    /\ sessions = << >>
    /\ candidate_status = "invited"
    /\ next_uuid = 1
    /\ req = [ c \in Clients |-> IdleReq ]
    /\ requests = 0
    /\ response = NoResult

\* ------------------------------------------------------------ the clock

\* The program points at which a request awaits an external generation or
\* scoring call (bounded by the HTTP client's timeout), and those at which it
\* awaits a MongoDB operation.
LLMAwaits == { "start_gen", "gather", "code_eval", "hr_gen", "seq_gen" }
DBAwaits == { "complete", "cutoff", "set_hr", "push_q", "end_complete" }

\* When the generation or scoring call a request awaits was issued: as the
\* request arrived, or as its response was stored and the time re-checked.
AwaitStart(r) ==
    IF r.pc \in { "hr_gen", "seq_gen" } THEN r.time_status.checked_at
    ELSE r.processing_start

\* Time passes between requests.  The clock reads 0 when the first request
\* arrives.
Think(d) ==
    /\ now + d <= MaxNow
    /\ \A c \in Clients : req[c].op = "idle"
    /\ sessions # << >>
    /\ now' = now + d
    /\ UNCHANGED << variant, coding, sessions, candidate_status, next_uuid, req, requests, response >>

\* Time passes while a request is in flight.  A step of the clock is minutes
\* long, so none fits into a MongoDB operation (socketTimeoutMS); a generation
\* or scoring call returns within LLMTimeout.
Latency(d) ==
    /\ now + d <= MaxNow
    /\ \E c \in Clients : req[c].pc \in LLMAwaits
    /\ \A c \in Clients : req[c].pc \notin DBAwaits
    /\ \A c \in Clients :
            req[c].pc \in LLMAwaits => now + d - AwaitStart(req[c]) <= LLMTimeout
    /\ now' = now + d
    /\ UNCHANGED << variant, coding, sessions, candidate_status, next_uuid, req, requests, response >>

\* ------------------------------------------------------ shared helpers

SetReq(c, r) == req' = [ req EXCEPT ![c] = r ]

\* The request of client c goes on to its next await.
Continue(c, r) == SetReq(c, r) /\ UNCHANGED response

\* The slot an arriving request is served in: the first free one.
FreeSlot(c) ==
    /\ req[c].op = "idle"
    /\ c = "c2" => req["c1"].op # "idle"

\* What a request served in slot c counts against MaxRequests.
Weight(c) == IF c = "c1" THEN 1 ELSE 2

\* A request arrives at idle client c and is taken up: it is counted.
Accepted(c, r) ==
    /\ FreeSlot(c)
    /\ requests + Weight(c) <= MaxRequests
    /\ requests' = requests + Weight(c)
    /\ Continue(c, r)

\* A start request is answered at once, without a write: it is not counted.
Answered(c, result) ==
    /\ response' = result
    /\ UNCHANGED << req, requests >>

\* A request is refused (HTTP 400 or 404) or only reads: nothing is written.
Refused(c, code) == UNCHANGED << req, requests, response >>

\* The request of client c returns.  The slots hold the requests in flight in
\* the order of their arrival: when the older one returns, the younger one
\* moves up.
Return(c, result) ==
    /\ req' = IF c = "c1" THEN [ c1 |-> req["c2"], c2 |-> IdleReq ]
                          ELSE [ req EXCEPT ![c] = IdleReq ]
    /\ response' = result

SetSession(s, doc) == sessions' = [ sessions EXCEPT ![s] = doc ]

\* True while the start request that creates session s has not returned:
\* its identifier is not yet known to any client.
Starting(s) == \E c \in Clients : req[c].op = "start" /\ req[c].sid = s

\* The session a request addresses.  The candidate router looks the session
\* up by the candidate's token (find_one returns the first match in
\* insertion order); the mock router by the _id the start request returned.
Targets ==
    IF variant = "candidate"
    THEN (IF sessions = << >> THEN {} ELSE {1})
    ELSE { s \in DOMAIN sessions : ~Starting(s) }

\* A Selector result (ai_service.generate_question): the round it was asked
\* for and the is_coding flag the generator returned.
QData(round_type, is_coding) ==
    [ round_type |-> round_type, is_coding |-> is_coding ]

\* ---------------------------------------------------------------- start

\* start_candidate_interview up to the first question's generation: the
\* lookup of an existing session, the completed and resume branches.
CandidateStartFind(c) ==
    /\ variant = "candidate"
    /\ req[c].op = "idle"
    /\ LET existing == IF sessions = << >> THEN NoSnap ELSE sessions[1]
           current_q_index == Len(existing.responses)
       IN  IF existing.status = "completed"
           THEN Refused(c, 400)
           ELSE IF /\ existing.status = "in_progress"
                   /\ current_q_index < Len(existing.questions)
           THEN Answered(c, Result("resumed",
                          existing.questions[current_q_index + 1].question_id))
           ELSE Accepted(c, [ IdleReq EXCEPT
                        !.op = "start", !.pc = "start_gen",
                        !.snap = existing,
                        !.processing_start = now ])
    /\ UNCHANGED << variant, coding, now, sessions, candidate_status, next_uuid >>

\* start_candidate_interview from the generated first question on: the
\* session document is inserted with the question and the startup cost.
CandidateStartInsert(c, duration, is_coding) ==
    /\ variant = "candidate"
    /\ req[c].op = "start" /\ req[c].pc = "start_gen"
    /\ LET q_data == QData("Technical", is_coding)
           startup_processing == now - req[c].processing_start
           doc == SessionDoc(duration, "medium",
                      << QuestionDoc(next_uuid, "medium", "Technical", q_data) >>,
                      startup_processing, now)
       IN  /\ sessions' = Append(sessions, doc)
           /\ Return(c, Result("started", next_uuid))
    /\ next_uuid' = next_uuid + 1
    /\ candidate_status' = "joined"
    /\ UNCHANGED << variant, coding, requests, now >>

\* start_mock_interview up to insert_one: the session is stored without
\* questions and with no processing time.
MockStartInsert(c, duration, difficulty) ==
    /\ variant = "mock"
    /\ req[c].op = "idle"
    /\ Len(sessions) < MaxSessions
    /\ sessions' = Append(sessions, SessionDoc(duration, difficulty, << >>, 0, now))
    /\ Accepted(c, [ IdleReq EXCEPT
            !.op = "start", !.pc = "start_gen", !.sid = Len(sessions) + 1,
            !.processing_start = now ])
    /\ UNCHANGED << variant, coding, now, candidate_status, next_uuid >>

\* start_mock_interview from the generated first question on: the question
\* is pushed, the startup cost measured and added ($inc), and the response
\* returned.  (No client knows the session before the response, so the two
\* writes are taken as one step.)
MockStartPush(c, is_coding) ==
    /\ variant = "mock"
    /\ req[c].op = "start" /\ req[c].pc = "start_gen"
    /\ LET s == req[c].sid
           q_data == QData("Technical", is_coding)
           question_doc == QuestionDoc(next_uuid, sessions[s].difficulty,
                                       "Technical", q_data)
           processing_time == now - req[c].processing_start
       IN  SetSession(s, [ sessions[s] EXCEPT
                !.questions = Append(@, question_doc),
                !.processing_time_total = @ + processing_time ])
    /\ Return(c, Result("started", next_uuid))
    /\ next_uuid' = next_uuid + 1
    /\ UNCHANGED << variant, coding, requests, now, candidate_status >>

\* --------------------------------------------------------------- submit

QuestionIds(doc) == { doc.questions[i].question_id : i \in DOMAIN doc.questions }

\* The first question of the list that carries the identifier (the loop of
\* submit_answer, next(...) in submit_candidate_answer).
FindQuestion(questions, qid) ==
    questions[CHOOSE i \in DOMAIN questions :
        /\ questions[i].question_id = qid
        /\ \A j \in DOMAIN questions : questions[j].question_id = qid => i <= j]

\* The question identifiers a client submits: the current unanswered
\* question, the one answered last (a retry), the newest question, or 0, an
\* identifier of no question.
SubmittedIds(doc) ==
    { doc.questions[i].question_id :
        i \in { Len(doc.responses), Len(doc.responses) + 1, Len(doc.questions) }
             \cap DOMAIN doc.questions } \cup {0}

\* Whether submit refuses a session whose status is completed: the candidate
\* router does (400), the mock router has no such check.
RejectsCompleted(v, status) == v = "candidate" /\ status = "completed"

\* submit: the session is read, the question looked up by its identifier,
\* and the evaluation started.  qid 0 is an identifier of no question.
SubmitFind(c, s, qid, code_text) ==
    /\ req[c].op = "idle"
    /\ s \in Targets
    /\ Len(sessions[s].responses) < MaxResponses
    /\ qid \in SubmittedIds(sessions[s])
    /\ LET session == sessions[s]
       IN  IF RejectsCompleted(variant, session.status)
           THEN Refused(c, 400)
           ELSE IF qid \notin QuestionIds(session)
           THEN Refused(c, 404)
           ELSE LET question_doc == FindQuestion(session.questions, qid)
                IN  /\ code_text => question_doc.is_coding
                    /\ Accepted(c, [ IdleReq EXCEPT
                            !.op = "submit",
                            !.pc = IF question_doc.is_coding /\ code_text
                                   THEN "code_eval" ELSE "gather",
                            !.sid = s, !.snap = session, !.question_id = qid,
                            !.is_coding = question_doc.is_coding,
                            !.processing_start = now,
                            !.proc_total = session.processing_time_total ])
    /\ UNCHANGED << variant, coding, now, sessions, candidate_status, next_uuid >>

\* submit, end or time on a candidate token with no session: 404.
NotStarted(c) ==
    /\ variant = "candidate"
    /\ req[c].op = "idle"
    /\ sessions = << >>
    /\ Refused(c, 404)
    /\ UNCHANGED << variant, coding, now, sessions, candidate_status, next_uuid >>

\* A re-check that leaves out the processing time of the answer at hand.
RecheckOverheadBefore(proc_before, processing_time) == proc_before

\* The processing overhead the re-check of the time uses: proc_total after
\* "proc_total += processing_time".
RecheckOverhead(proc_before, processing_time) == proc_before + processing_time

\* The guard of the round gate.
GateGuard(active_elapsed, duration, tech_responses) ==
    /\ active_elapsed >= duration * 6
    /\ Len(tech_responses) >= 3

\* "if is_coding or not next_q_data": the next question still has to be
\* generated sequentially.
NeedsSequential(is_coding, next_q_data) == is_coding \/ next_q_data = NoQ

\* A continuation that looks at the round gate before the clock.
AfterSaveGateFirst(snap, is_coding, next_q_data, time_status, tech_responses, tech_score) ==
    IF /\ snap.current_round = "Technical"
       /\ GateGuard(time_status.elapsed_minutes, snap.duration_minutes, tech_responses)
    THEN (IF ~should_proceed_to_hr(tech_score, TECH_CUTOFF)
          THEN "cutoff" ELSE "set_hr")
    ELSE IF time_status.is_expired THEN "complete"
    ELSE IF NeedsSequential(is_coding, next_q_data) THEN "seq_gen"
    ELSE "push_q"

\* Where submit continues once the response is stored and the time re-checked.
AfterSave(snap, is_coding, next_q_data, time_status, tech_responses, tech_score) ==
    IF time_status.is_expired THEN "complete"
    ELSE IF /\ snap.current_round = "Technical"
            /\ GateGuard(time_status.elapsed_minutes,
                         snap.duration_minutes, tech_responses)
    THEN (IF ~should_proceed_to_hr(tech_score, TECH_CUTOFF)
          THEN "cutoff" ELSE "set_hr")
    ELSE IF NeedsSequential(is_coding, next_q_data) THEN "seq_gen"
    ELSE "push_q"

\* submit from the return of the evaluation on: processing_time is measured,
\* update_one pushes the response and adds the processing time, then the
\* time is re-checked and the round gate evaluated.  (The bookkeeping before
\* the write is local to the request, so the evaluation's return and the
\* write are taken as one step.)
SubmitSave(c, overall, next_q_data) ==
    /\ LET r == req[c]
           s == r.sid
           processing_time == now - r.processing_start
           proc_total == r.snap.processing_time_total + processing_time
           response_doc == ResponseDoc(r.question_id, overall)
           time_status == check_time_status(r.snap.started_at,
                              r.snap.duration_minutes,
                              RecheckOverhead(r.snap.processing_time_total,
                                              processing_time),
                              now)
           all_responses == Append(r.snap.responses, response_doc)
           tech_responses == RoundResponses(all_responses, r.snap.questions,
                                            "Technical")
           tech_score == calculate_round_score(tech_responses)
       IN  /\ SetSession(s, [ sessions[s] EXCEPT
                    !.responses = Append(@, response_doc),
                    !.current_question_index =
                        IF variant = "mock"
                        THEN r.snap.current_question_index + 1 ELSE @,
                    !.processing_time_total = @ + processing_time ])
           /\ Continue(c, [ r EXCEPT
                    !.pc = AfterSave(r.snap, r.is_coding, next_q_data,
                                     time_status, tech_responses, tech_score),
                    !.overall = overall,
                    !.next_q_data = next_q_data,
                    !.processing_time = processing_time,
                    !.proc_total = proc_total,
                    !.time_status = time_status,
                    !.current_round = r.snap.current_round,
                    !.tech_score =
                        IF r.snap.current_round = "Technical" /\ ~time_status.is_expired
                        THEN tech_score ELSE None ])
    /\ UNCHANGED << variant, coding, requests, now, candidate_status, next_uuid >>

\* submit, non-coding path: asyncio.gather(deep_eval_task, next_q_task)
\* returns.  ok: both results are taken (the question was generated for the
\* round read at the start); otherwise the instant evaluation is kept and
\* there is no pre-generated question.
SubmitGather(c, overall, ok, is_coding) ==
    /\ req[c].op = "submit" /\ req[c].pc = "gather"
    /\ SubmitSave(c, overall,
            IF ok THEN QData(req[c].snap.current_round, is_coding) ELSE NoQ)

\* submit, coding path: evaluate_code returns; nothing is pre-generated.
SubmitCodeEval(c, overall) ==
    /\ req[c].op = "submit" /\ req[c].pc = "code_eval"
    /\ SubmitSave(c, overall, NoQ)

\* The responses _complete_session / _complete_candidate_session aggregate
\* when submit finds the time expired: the mock router passes the session as
\* read at the start of the request, the candidate router all_responses.
ExpiredResponses(v, snap, response_doc) ==
    IF v = "mock" THEN snap.responses ELSE Append(snap.responses, response_doc)

\* A completion that also puts the round back to its initial value.
CompletedResettingRound(doc, questions, responses, t) ==
    [ doc EXCEPT
        !.status = "completed",
        !.completed_at = t,
        !.current_round = "Technical",
        !.technical_score =
            calculate_round_score(RoundResponses(responses, questions, "Technical")),
        !.hr_score =
            calculate_round_score(RoundResponses(responses, questions, "HR")) ]

\* The $set of _complete_session / _complete_candidate_session.
Completed(doc, questions, responses, t) ==
    [ doc EXCEPT
        !.status = "completed",
        !.completed_at = t,
        !.technical_score =
            calculate_round_score(RoundResponses(responses, questions, "Technical")),
        !.hr_score =
            calculate_round_score(RoundResponses(responses, questions, "HR")) ]

CandidateCompleted(v, status) == IF v = "candidate" THEN "completed" ELSE status

\* submit: the time has expired; the session is completed.
SubmitComplete(c) ==
    /\ req[c].op = "submit" /\ req[c].pc = "complete"
    /\ LET r == req[c]
           s == r.sid
       IN  SetSession(s, Completed(sessions[s], r.snap.questions,
                ExpiredResponses(variant, r.snap,
                                 ResponseDoc(r.question_id, r.overall)),
                now))
    /\ candidate_status' = CandidateCompleted(variant, candidate_status)
    /\ Return(c, Result("time_expired", 0))
    /\ UNCHANGED << variant, coding, requests, now, next_uuid >>

\* The reason the cutoff branch stores on the session, and the one it returns.
StoredCutoffReason == "technical_score_below_cutoff"
ReturnedCutoffReason == "technical_cutoff_not_met"

\* submit: the Technical score misses the cutoff; the session is ended.
SubmitCutoff(c) ==
    /\ req[c].op = "submit" /\ req[c].pc = "cutoff"
    /\ LET r == req[c]
           s == r.sid
       IN  SetSession(s, [ sessions[s] EXCEPT
                !.technical_score = r.tech_score,
                !.status = "completed",
                !.completed_at = now,
                !.termination_reason = StoredCutoffReason ])
    /\ candidate_status' = CandidateCompleted(variant, candidate_status)
    /\ Return(c, Result(ReturnedCutoffReason, 0))
    /\ UNCHANGED << variant, coding, requests, now, next_uuid >>

\* A round change that keeps whatever question was generated beforehand.
KeepsPregenerated(is_coding) == FALSE

\* "if not is_coding": the HR question is generated right after the round
\* changed (the pre-generated one was for the Technical round).
NeedsHRRegen(is_coding) == ~is_coding

\* submit: the Technical score meets the cutoff; the round becomes HR.
SubmitSetHR(c) ==
    /\ req[c].op = "submit" /\ req[c].pc = "set_hr"
    /\ LET r == req[c]
           s == r.sid
       IN  /\ SetSession(s, [ sessions[s] EXCEPT
                    !.current_round = "HR",
                    !.technical_score = r.tech_score ])
           /\ Continue(c, [ r EXCEPT
                    !.current_round = "HR",
                    !.pc = IF NeedsHRRegen(r.is_coding) THEN "hr_gen"
                           ELSE IF NeedsSequential(r.is_coding, r.next_q_data)
                           THEN "seq_gen" ELSE "push_q" ])
    /\ UNCHANGED << variant, coding, requests, now, candidate_status, next_uuid >>

\* The last block of submit: the next question is pushed, the session's
\* difficulty set, and the evaluation returned with the next question.
PushQuestion(c, q_data) ==
    /\ LET r == req[c]
           s == r.sid
           next_difficulty == determine_next_difficulty(r.overall, r.snap.difficulty)
           next_question_doc == QuestionDoc(next_uuid, next_difficulty,
                                            r.current_round, q_data)
       IN  SetSession(s, [ sessions[s] EXCEPT
                !.questions = Append(@, next_question_doc),
                !.difficulty = next_difficulty ])
    /\ Return(c, Result("next_question", next_uuid))
    /\ next_uuid' = next_uuid + 1
    /\ UNCHANGED << variant, coding, requests, now, candidate_status >>

\* submit: generate_question(round_type="HR") returns after the round
\* changed; its question is pushed.  (The call touches no shared state, so
\* its return and the write that follows are taken as one step.)
SubmitHRGen(c, is_coding) ==
    /\ req[c].op = "submit" /\ req[c].pc = "hr_gen"
    /\ PushQuestion(c, QData("HR", is_coding))

\* submit: the sequential generate_question(round_type=current_round)
\* returns; its question is pushed.
SubmitSeqGen(c, is_coding) ==
    /\ req[c].op = "submit" /\ req[c].pc = "seq_gen"
    /\ PushQuestion(c, QData(req[c].current_round, is_coding))

\* submit: the question generated in parallel with the evaluation is pushed.
SubmitPushQ(c) ==
    /\ req[c].op = "submit" /\ req[c].pc = "push_q"
    /\ PushQuestion(c, req[c].next_q_data)

\* ------------------------------------------------------------------ end

\* end: the session is read.
EndFind(c, s) ==
    /\ req[c].op = "idle"
    /\ s \in Targets
    /\ Accepted(c, [ IdleReq EXCEPT
            !.op = "end", !.pc = "end_complete", !.sid = s,
            !.snap = sessions[s] ])
    /\ UNCHANGED << variant, coding, now, sessions, candidate_status, next_uuid >>

\* end: the session is completed from the document read by EndFind.
EndComplete(c) ==
    /\ req[c].op = "end" /\ req[c].pc = "end_complete"
    /\ LET r == req[c]
           s == r.sid
       IN  SetSession(s, Completed(sessions[s], r.snap.questions,
                                   r.snap.responses, now))
    /\ candidate_status' = CandidateCompleted(variant, candidate_status)
    /\ Return(c, Result("ended", 0))
    /\ UNCHANGED << variant, coding, requests, now, next_uuid >>

\* ----------------------------------------------------------- time query

\* check_time / check_candidate_time: a read-only projection of the clock
\* over the stored session; it writes nothing.
TimeQuery(c, s) ==
    /\ req[c].op = "idle"
    /\ s \in Targets
    /\ LET doc == sessions[s]
           time_status == check_time_status(doc.started_at, doc.duration_minutes,
                                            doc.processing_time_total, now)
       IN  time_status.is_expired \in BOOLEAN
    /\ Refused(c, 200)
    /\ UNCHANGED << variant, coding, now, sessions, candidate_status, next_uuid >>

\* ------------------------------------------------------ specification

Next ==
    \/ \E d \in ThinkSteps : Think(d)
    \/ \E d \in LatencySteps : Latency(d)
    \/ \E c \in Clients :
        \/ CandidateStartFind(c)
        \/ \E duration \in Durations : CandidateStartInsert(c, duration, coding)
        \/ \E duration \in Durations, difficulty \in StartDifficulties :
                MockStartInsert(c, duration, difficulty)
        \/ MockStartPush(c, coding)
        \/ NotStarted(c)
        \/ \E s \in DOMAIN sessions, qid \in 0 .. next_uuid, code_text \in BOOLEAN :
                SubmitFind(c, s, qid, code_text)
        \/ \E overall \in Scores, ok \in BOOLEAN : SubmitGather(c, overall, ok, coding)
        \/ \E overall \in Scores : SubmitCodeEval(c, overall)
        \/ SubmitComplete(c)
        \/ SubmitCutoff(c)
        \/ SubmitSetHR(c)
        \/ SubmitHRGen(c, coding)
        \/ SubmitSeqGen(c, coding)
        \/ SubmitPushQ(c)
        \/ \E s \in DOMAIN sessions : EndFind(c, s)
        \/ EndComplete(c)
        \/ \E s \in DOMAIN sessions : TimeQuery(c, s)

Spec == Init /\ [][Next]_vars

\* ------------------------------------------- the session at the round gate

\* The session as start and two answers given in turn leave it, with no time
\* spent so far: three Technical questions, the first two answered with
\* scores o1 and o2, each question of the difficulty the previous score gave.
GateSession(v, is_coding, duration, o1, o2) ==
    LET q_data == QData("Technical", is_coding)
        d2 == determine_next_difficulty(o1, "medium")
        d3 == determine_next_difficulty(o2, d2)
    IN  [ SessionDoc(duration, "medium",
              << QuestionDoc(1, "medium", "Technical", q_data),
                 QuestionDoc(2, d2, "Technical", q_data),
                 QuestionDoc(3, d3, "Technical", q_data) >>, 0, 0)
          EXCEPT !.responses = << ResponseDoc(1, o1), ResponseDoc(2, o2) >>,
                 !.current_question_index = IF v = "mock" THEN 2 ELSE 0,
                 !.difficulty = d3 ]

\* A run that begins with such a session, a state Spec reaches with its first
\* three requests (GateSessionReached), and receives three more requests.
InitGate ==
    /\ variant \in Variants
    /\ coding \in BOOLEAN
    /\ now = 0
    /\ \E duration \in Durations, o1 \in Scores, o2 \in Scores :
            sessions = << GateSession(variant, coding, duration, o1, o2) >>
    /\ candidate_status = IF variant = "candidate" THEN "joined" ELSE "invited"
    /\ next_uuid = 4
    /\ req = [ c \in Clients |-> IdleReq ]
    /\ requests = MaxRequests - 3
    /\ response = Result("next_question", 3)

\* The scores the answers given from here on get: one in each tier of the
\* difficulty adapter, the upper tier at its threshold.
GateScores == Scores \cup { 800 }

\* The steps of submit, end and the time query; no start request arrives.
NextGate ==
    \/ \E d \in ThinkSteps : Think(d)
    \/ \E d \in LatencySteps : Latency(d)
    \/ \E c \in Clients :
        \/ \E s \in DOMAIN sessions, qid \in 0 .. next_uuid, code_text \in BOOLEAN :
                SubmitFind(c, s, qid, code_text)
        \/ \E overall \in GateScores, ok \in BOOLEAN : SubmitGather(c, overall, ok, coding)
        \/ \E overall \in GateScores : SubmitCodeEval(c, overall)
        \/ SubmitComplete(c)
        \/ SubmitCutoff(c)
        \/ SubmitSetHR(c)
        \/ SubmitHRGen(c, coding)
        \/ SubmitSeqGen(c, coding)
        \/ SubmitPushQ(c)
        \/ \E s \in DOMAIN sessions : EndFind(c, s)
        \/ EndComplete(c)
        \/ \E s \in DOMAIN sessions : TimeQuery(c, s)

SpecGate == InitGate /\ [][NextGate]_vars

\* -------------------------------------------------- the interview room

\* The connections of one room, by conn_id, and the role each one gives in
\* its query parameters.
ConnIds == { "candidate 1", "candidate 2", "hr 1" }
Role(conn_id) == IF conn_id = "hr 1" THEN "hr" ELSE "candidate"

\* The message types interview_websocket relays to data["target"].
RelayTypes == { "webrtc_offer", "webrtc_answer", "ice_candidate", "request_stream" }

\* ConnectionManager: rooms[room_id], hr_connections[room_id] and
\* participant_info, each by the conn_ids it holds.
Manager(rooms, hr_connections, participant_info) ==
    [ rooms |-> rooms, hr_connections |-> hr_connections,
      participant_info |-> participant_info ]

\* ConnectionManager._get_participants
get_participants(manager, include_hr) ==
    { cid \in manager.rooms :
        include_hr \/ ~(cid \in manager.participant_info /\ Role(cid) = "hr") }

\* A message as a connection receives it; from is the sender named in it
\* ("" where it names none).
Message(to, type, from, participants) ==
    [ to |-> to, type |-> type, from |-> from, participants |-> participants ]

\* ConnectionManager._send_to_hr
send_to_hr(manager, type, from, participants) ==
    { Message(cid, type, from, participants) : cid \in manager.hr_connections }

\* ConnectionManager.send_to
send_to(manager, target_id, type, from) ==
    IF target_id \in manager.rooms THEN { Message(target_id, type, from, {}) } ELSE {}

\* sessions holds the ConnectionManager, response the messages the last
\* handler step sent.
InitRoom ==
    /\ variant = "candidate"
    /\ coding = FALSE
    /\ now = 0
    /\ sessions = Manager({}, {}, {})
    /\ candidate_status = "invited"
    /\ next_uuid = 1
    /\ req = [ c \in Clients |-> IdleReq ]
    /\ requests = 0
    /\ response = {}

\* interview_websocket up to the receive loop: a candidate is marked joined,
\* then ConnectionManager.join_room.
JoinRoom(conn_id) ==
    /\ conn_id \notin sessions.rooms
    /\ LET role == Role(conn_id)
           manager == Manager(sessions.rooms \cup { conn_id },
                              IF role = "hr" THEN sessions.hr_connections \cup { conn_id }
                                             ELSE sessions.hr_connections,
                              sessions.participant_info \cup { conn_id })
       IN  /\ sessions' = manager
           /\ response' =
                IF role = "hr"
                THEN { Message(conn_id, "room_state", "",
                               get_participants(manager, TRUE)) }
                ELSE send_to_hr(manager, "user_joined", conn_id,
                                get_participants(manager, FALSE))
                     \cup { Message(conn_id, "room_state", "",
                                    get_participants(manager, FALSE)) }
    /\ candidate_status' = IF Role(conn_id) = "candidate" THEN "joined"
                                                          ELSE candidate_status
    /\ UNCHANGED << variant, coding, now, next_uuid, req, requests >>

\* WebSocketDisconnect: ConnectionManager.leave_room.
LeaveRoom(conn_id) ==
    /\ conn_id \in sessions.rooms
    /\ LET is_hr == Role(conn_id) = "hr"
           manager == Manager(sessions.rooms \ { conn_id },
                              IF is_hr THEN sessions.hr_connections \ { conn_id }
                                       ELSE sessions.hr_connections,
                              sessions.participant_info \ { conn_id })
       IN  /\ sessions' = manager
           /\ response' =
                IF is_hr THEN {}
                ELSE send_to_hr(manager, "user_left", conn_id,
                                get_participants(manager, FALSE))
    /\ UNCHANGED << variant, coding, now, candidate_status, next_uuid, req, requests >>

\* The receive loop: a message of a relayed type is sent on to its target
\* with "from" set to the sender's conn_id.
RelayMessage(conn_id, type, target) ==
    /\ conn_id \in sessions.rooms
    /\ response' = send_to(sessions, target, type, conn_id)
    /\ UNCHANGED << variant, coding, now, sessions, candidate_status, next_uuid, req,
                    requests >>

\* The receive loop: stream_ready is sent to the HR connections.
StreamReady(conn_id) ==
    /\ conn_id \in sessions.rooms
    /\ response' = send_to_hr(sessions, "stream_ready", conn_id, {})
    /\ UNCHANGED << variant, coding, now, sessions, candidate_status, next_uuid, req,
                    requests >>

NextRoom ==
    \E conn_id \in ConnIds :
        \/ JoinRoom(conn_id)
        \/ LeaveRoom(conn_id)
        \/ \E type \in RelayTypes, target \in ConnIds : RelayMessage(conn_id, type, target)
        \/ StreamReady(conn_id)

SpecRoom == InitRoom /\ [][NextRoom]_vars

\* ------------------------------------------- a generation call that raises

\* submit: the generate_question call made after the response was stored
\* (the HR regeneration or the sequential generation) raises.  Neither
\* router catches it: the request ends with HTTP 500 and writes nothing more.
SubmitGenRaises(c) ==
    /\ req[c].op = "submit" /\ req[c].pc \in { "hr_gen", "seq_gen" }
    /\ Return(c, Result("error", 500))
    /\ UNCHANGED << variant, coding, requests, now, sessions, candidate_status,
                    next_uuid >>

\* The steps of start and submit on the session of InitGate, with the
\* generation calls of submit free to raise.
NextRecover ==
    \/ \E d \in ThinkSteps : Think(d)
    \/ \E d \in LatencySteps : Latency(d)
    \/ \E c \in Clients :
        \/ CandidateStartFind(c)
        \/ \E duration \in Durations : CandidateStartInsert(c, duration, coding)
        \/ \E s \in DOMAIN sessions, qid \in 0 .. next_uuid, code_text \in BOOLEAN :
                SubmitFind(c, s, qid, code_text)
        \/ \E overall \in Scores, ok \in BOOLEAN : SubmitGather(c, overall, ok, coding)
        \/ \E overall \in Scores : SubmitCodeEval(c, overall)
        \/ SubmitComplete(c)
        \/ SubmitCutoff(c)
        \/ SubmitSetHR(c)
        \/ SubmitHRGen(c, coding)
        \/ SubmitSeqGen(c, coding)
        \/ SubmitPushQ(c)
        \/ SubmitGenRaises(c)

SpecRecover == InitGate /\ [][NextRecover]_vars

\* What the request served in slot c does once its await is over.  Every await
\* of a request ends: a database call returns, and a generation or scoring
\* call returns or is given up by the HTTP client after LLMTimeout, so the
\* event loop resumes the request.
Resumes(c) ==
    \/ \E duration \in Durations : CandidateStartInsert(c, duration, coding)
    \/ \E overall \in Scores, ok \in BOOLEAN : SubmitGather(c, overall, ok, coding)
    \/ \E overall \in Scores : SubmitCodeEval(c, overall)
    \/ SubmitComplete(c)
    \/ SubmitCutoff(c)
    \/ SubmitSetHR(c)
    \/ SubmitHRGen(c, coding)
    \/ SubmitSeqGen(c, coding)
    \/ SubmitPushQ(c)
    \/ SubmitGenRaises(c)

\* The requests of SpecRecover, each resumed when its await is over.  No
\* request has to arrive and no time has to pass.
SpecLive == SpecRecover /\ \A c \in Clients : WF_vars(Resumes(c))

\* ------------------------------------------------- the two-phase evaluation

\* The answers evaluated: similarity to the ideal answer and keyword coverage
\* in tenths of a point, the number of words (0: the empty answer), of
\* sentences and of structure markers.
SimScores == { 300, 800 }
KeywordPcts == { 0, 500, 1000 }
WordCounts == { 0, 40, 150 }
SentenceCounts == { 1, 3 }
MarkerCounts == { 0, 1 }

\* What _ollama_generate returns to _evaluate_depth: "" after any failure or
\* timeout of the HTTP call, otherwise a JSON text with a depth_score (here in
\* points).
DepthResponses == { "", "20", "90" }
DepthPoints(text) == IF text = "20" THEN 20 ELSE 90

\* What _ollama_generate returns to _get_ai_feedback.
FeedbackResponses == { "", "llm feedback" }

\* round(x, 1) of a score x given in 1/10000 of a point; the result is in
\* tenths.
Round1(x4) == RoundHalfEven(x4, 1000)

answer_strength(overall) ==
    IF overall >= 800 THEN "strong" ELSE IF overall >= 500 THEN "moderate" ELSE "weak"

\* ai_service.evaluate_answer_instant.  The heuristic feedback text is
\* recorded as "instant feedback".
evaluate_answer_instant(sim, keyword_pct, word_count, sentences, marker_count) ==
    IF word_count = 0
    THEN [ content_score |-> 0, keyword_score |-> 0, depth_score |-> 0,
           communication_score |-> 0, confidence_score |-> 0, overall_score |-> 0,
           similarity_score |-> 0, feedback |-> "No answer provided.",
           answer_strength |-> "weak", phase |-> "instant" ]
    ELSE
    LET base == IF word_count < 10 THEN 15
                ELSE IF word_count < 20 THEN 35
                ELSE IF word_count < 50 THEN 55
                ELSE IF word_count < 100 THEN 70
                ELSE IF word_count < 200 THEN 82 ELSE 88
        bonus3 == IF sentences >= 3 THEN Min(100, base + 8) ELSE base
        bonus5 == IF sentences >= 5 THEN Min(100, bonus3 + 5) ELSE bonus3
        comm_score == Min(100, bonus5 + marker_count * 3) * 10000
        depth_score == Min(1000000, sim * 500 + keyword_pct * 300
                                      + Min(word_count, 100) * 2000)
        content_score == sim * 600 + keyword_pct * 400
        confidence_score == 500000
        overall == ( content_score * 40 + keyword_pct * 1000 * 20 + depth_score * 15
                     + comm_score * 15 + confidence_score * 10 ) \div 100
    IN  [ content_score |-> Round1(content_score),
          keyword_score |-> keyword_pct,
          depth_score |-> Round1(depth_score),
          communication_score |-> Round1(comm_score),
          confidence_score |-> Round1(confidence_score),
          overall_score |-> Round1(overall),
          similarity_score |-> sim,
          feedback |-> "instant feedback",
          answer_strength |-> answer_strength(overall \div 1000),
          phase |-> "instant" ]

\* ai_service._evaluate_depth on the text _ollama_generate returned, in
\* 1/100 of a point: the parsed depth_score clamped to 0..100, and
\* sim_score * 0.8 where the text holds no JSON.
evaluate_depth(text, sim_score) ==
    IF text = "" THEN sim_score * 8
    ELSE Max(0, Min(100, DepthPoints(text))) * 100

\* ai_service._get_ai_feedback on the text _ollama_generate returned: the
\* text, or a fixed sentence chosen by the score where the text is empty.
get_ai_feedback(text, score) ==
    IF text # "" THEN text
    ELSE IF score >= 700 THEN "Good answer"
    ELSE IF score >= 400 THEN "Decent answer"
    ELSE "Needs more depth"

\* ai_service.evaluate_answer_deep: the value it returns for the two texts
\* the external calls gave.  Neither helper raises, so the except branch
\* (phase deep_failed) is taken for no input.
evaluate_answer_deep(instant_result, depth_text, feedback_text) ==
    LET depth_score == evaluate_depth(depth_text, instant_result.similarity_score)
        feedback == get_ai_feedback(feedback_text, instant_result.overall_score)
        overall == instant_result.content_score * 400
                   + instant_result.keyword_score * 200
                   + depth_score * 15
                   + instant_result.communication_score * 150
                   + instant_result.confidence_score * 100
    IN  [ instant_result EXCEPT
            !.depth_score = RoundHalfEven(depth_score, 10),
            !.overall_score = Round1(overall),
            !.feedback = IF feedback # "" THEN feedback ELSE instant_result.feedback,
            !.answer_strength = answer_strength(overall \div 1000),
            !.phase = "deep" ]

\* The locals of a submit while its answer is evaluated.
EvalReq(pc, instant_eval, depth_text, feedback_text, evaluation) ==
    [ op |-> "submit", pc |-> pc, instant_eval |-> instant_eval,
      depth_text |-> depth_text, feedback_text |-> feedback_text,
      evaluation |-> evaluation ]

NoEval == [ phase |-> "none" ]

InitEval ==
    /\ variant \in Variants
    /\ coding = FALSE
    /\ now = 0
    /\ sessions = << >>
    /\ candidate_status = "joined"
    /\ next_uuid = 1
    /\ req = [ c \in Clients |-> IdleReq ]
    /\ requests = 0
    /\ response = NoResult

\* submit_answer, a text answer, up to the gather of the deep evaluation and
\* the pre-generation: the instant evaluation is computed.  One answer is
\* evaluated in a behaviour.
SubmitInstant(c, sim, keyword_pct, word_count, sentences, marker_count) ==
    /\ FreeSlot(c)
    /\ \A d \in Clients : req[d].op = "idle"
    /\ response = NoResult
    /\ Continue(c, EvalReq("gather",
            evaluate_answer_instant(sim, keyword_pct, word_count, sentences, marker_count),
            "", "", NoEval))
    /\ UNCHANGED << variant, coding, now, sessions, candidate_status, next_uuid, requests >>

\* The gather returns: the deep evaluation computed from what the two
\* external calls gave is the evaluation, or, where the gather raised (ok
\* false: the pre-generation failed), the instant one.
SubmitEvaluated(c, depth_text, feedback_text, ok) ==
    /\ req[c].op = "submit" /\ req[c].pc = "gather"
    /\ LET instant_eval == req[c].instant_eval
           deep_eval == evaluate_answer_deep(instant_eval, depth_text, feedback_text)
       IN  Continue(c, EvalReq("save", instant_eval, depth_text, feedback_text,
                               IF ok THEN deep_eval ELSE instant_eval))
    /\ UNCHANGED << variant, coding, now, sessions, candidate_status, next_uuid, requests >>

\* The evaluation is stored in the response document and returned.
SubmitStored(c) ==
    /\ req[c].op = "submit" /\ req[c].pc = "save"
    /\ Return(c, req[c].evaluation)
    /\ UNCHANGED << variant, coding, now, sessions, candidate_status, next_uuid, requests >>

NextEval ==
    \E c \in Clients :
        \/ \E sim \in SimScores, keyword_pct \in KeywordPcts, word_count \in WordCounts,
              sentences \in SentenceCounts, marker_count \in MarkerCounts :
                SubmitInstant(c, sim, keyword_pct, word_count, sentences, marker_count)
        \/ \E depth_text \in DepthResponses, feedback_text \in FeedbackResponses,
              ok \in BOOLEAN :
                SubmitEvaluated(c, depth_text, feedback_text, ok)
        \/ SubmitStored(c)

SpecEval == InitEval /\ [][NextEval]_vars

\* ------------------------------------------------------------ the Selector

\* Questions a session of the Selector specification holds at most.
MaxQuestions == 7

\* What the generator's reply parses to: "" where the call failed or the
\* reply holds no question, otherwise the question text.  Nothing makes the
\* text differ from the questions named in the prompt.
GeneratedTexts == { "", "generated 1", "generated 2" }

\* fallback_questions of generate_question, by round.
fallback_questions(round_type) ==
    IF round_type = "HR"
    THEN << "HR 1", "HR 2", "HR 3", "HR 4", "HR 5", "HR 6" >>
    ELSE << "Technical 1", "Technical 2", "Technical 3",
            "Technical 4", "Technical 5", "Technical 6" >>

Range(seq) == { seq[i] : i \in DOMAIN seq }

\* The loop over fallback_questions: the first one not in
\* previous_questions, and the first of all where every one is in it.
RECURSIVE FirstNotAsked(_, _, _)
FirstNotAsked(pool, previous_questions, chosen) ==
    IF pool = << >> THEN chosen
    ELSE IF Head(pool) \notin Range(previous_questions) THEN Head(pool)
    ELSE FirstNotAsked(Tail(pool), previous_questions, chosen)

\* ai_service.generate_question: the question text it returns, given the
\* text the generator's reply parsed to.
generate_question(previous_questions, round_type, generated) ==
    IF generated = ""
    THEN FirstNotAsked(fallback_questions(round_type), previous_questions,
                       fallback_questions(round_type)[1])
    ELSE generated

\* A session of the Selector specification: the texts of its questions.
SelectorSession(round, questions) ==
    [ status |-> "in_progress", current_round |-> round, questions |-> questions ]

\* The last Selector call: its exclusion list and the question it returned.
SelectorCall(previous_questions, question) ==
    [ previous_questions |-> previous_questions, question |-> question ]

InitSelect ==
    /\ variant \in Variants
    /\ coding = FALSE
    /\ now = 0
    /\ sessions = << SelectorSession("Technical", << >>) >>
    /\ candidate_status = "joined"
    /\ next_uuid = 1
    /\ req = [ c \in Clients |-> IdleReq ]
    /\ requests = 0
    /\ response = SelectorCall(<< >>, "")

\* start or submit calls generate_question with the session's questions as
\* previous_questions and appends the question it returns.
SelectQuestion(generated) ==
    /\ Len(sessions[1].questions) < MaxQuestions
    /\ LET previous_questions == sessions[1].questions
           question == generate_question(previous_questions,
                                         sessions[1].current_round, generated)
       IN  /\ response' = SelectorCall(previous_questions, question)
           /\ sessions' = [ sessions EXCEPT ![1].questions = Append(@, question) ]
    /\ UNCHANGED << variant, coding, now, candidate_status, next_uuid, req, requests >>

\* The round gate moves the session to the HR round.
SelectHRRound ==
    /\ sessions[1].current_round = "Technical"
    /\ sessions[1].questions # << >>
    /\ sessions' = [ sessions EXCEPT ![1].current_round = "HR" ]
    /\ UNCHANGED << variant, coding, now, candidate_status, next_uuid, req, requests,
                    response >>

NextSelect ==
    \/ \E generated \in GeneratedTexts : SelectQuestion(generated)
    \/ SelectHRRound

SpecSelect == InitSelect /\ [][NextSelect]_vars

\* ------------------------------------------------------ the exclusion list

\* A document of candidate_ai_sessions, with the fields the exclusion
\* queries read.
AISession(token, email, interview_session_id, status, round, questions) ==
    [ candidate_token |-> token, candidate_email |-> email,
      interview_session_id |-> interview_session_id,
      status |-> status, current_round |-> round, questions |-> questions ]

\* The candidate the requests are made for.
Candidate ==
    [ unique_token |-> "token 1", email |-> "a@x", interview_session_id |-> "assessment 2" ]

\* The questions a peer of the same assessment was asked, and those the
\* candidate was asked in an earlier, completed session.
PeerQuestions == { << >>, << "Technical 1" >>, << "generated 1" >> }
PastQuestions == { << >>, << "Technical 2" >>, << "generated 2" >> }

\* The filter of the query for other candidates' sessions, and of the query
\* for the candidate's completed sessions.
OtherFilter(doc, interview_session_id, token) ==
    /\ doc.interview_session_id = interview_session_id
    /\ doc.candidate_token # token
PastFilter(doc, email) ==
    /\ doc.candidate_email = email
    /\ doc.status = "completed"

\* The loops over the two cursors: the questions of the matching documents.
RECURSIVE other_candidate_questions(_, _, _)
other_candidate_questions(docs, interview_session_id, token) ==
    IF docs = << >> THEN << >>
    ELSE (IF OtherFilter(Head(docs), interview_session_id, token)
          THEN Head(docs).questions ELSE << >>)
         \o other_candidate_questions(Tail(docs), interview_session_id, token)

RECURSIVE past_candidate_questions(_, _)
past_candidate_questions(docs, email) ==
    IF docs = << >> THEN << >>
    ELSE (IF PastFilter(Head(docs), email) THEN Head(docs).questions ELSE << >>)
         \o past_candidate_questions(Tail(docs), email)

\* find_one({"candidate_token": token}): the index of the first match, 0 if
\* there is none.
RECURSIVE FindToken(_, _, _)
FindToken(docs, token, i) ==
    IF i > Len(docs) THEN 0
    ELSE IF docs[i].candidate_token = token THEN i
    ELSE FindToken(docs, token, i + 1)

\* avoid_questions of start_candidate_interview.
StartExclusions(docs) ==
    other_candidate_questions(docs, Candidate.interview_session_id, Candidate.unique_token)
    \o past_candidate_questions(docs, Candidate.email)

\* prev_questions of submit_candidate_answer, the same expression in its
\* three generate_question calls.
SubmitExclusions(docs, ai_session) ==
    ai_session.questions
    \o other_candidate_questions(docs, ai_session.interview_session_id,
                                 Candidate.unique_token)

InitExclude ==
    /\ variant = "candidate"
    /\ coding = FALSE
    /\ now = 0
    /\ \E peer \in PeerQuestions, past \in PastQuestions :
          sessions = << AISession("token 2", "b@x", "assessment 2", "in_progress",
                                  "Technical", peer),
                        AISession("token 0", "a@x", "assessment 1", "completed",
                                  "HR", past) >>
    /\ candidate_status = "invited"
    /\ next_uuid = 1
    /\ req = [ c \in Clients |-> IdleReq ]
    /\ requests = 0
    /\ response = SelectorCall(<< >>, "")

\* start_candidate_interview: no session exists for the token; the first
\* question is generated and the session inserted.
ExcludeStart(generated) ==
    /\ FindToken(sessions, Candidate.unique_token, 1) = 0
    /\ LET avoid_questions == StartExclusions(sessions)
           question == generate_question(avoid_questions, "Technical", generated)
       IN  /\ response' = SelectorCall(avoid_questions, question)
           /\ sessions' = Append(sessions,
                  AISession(Candidate.unique_token, Candidate.email,
                            Candidate.interview_session_id, "in_progress",
                            "Technical", << question >>))
    /\ candidate_status' = "joined"
    /\ UNCHANGED << variant, coding, now, next_uuid, req, requests >>

\* submit_candidate_answer: a generate_question call for round_type, the
\* current round (pre-generation, sequential generation) or HR after the
\* round gate (regeneration), and the push of its question.
ExcludeSubmit(round_type, generated) ==
    LET i == FindToken(sessions, Candidate.unique_token, 1)
    IN  /\ i # 0
        /\ Len(sessions[i].questions) <= MaxResponses
        /\ round_type \in { sessions[i].current_round, "HR" }
        /\ LET prev_questions == SubmitExclusions(sessions, sessions[i])
               question == generate_question(prev_questions, round_type, generated)
           IN  /\ response' = SelectorCall(prev_questions, question)
               /\ sessions' = [ sessions EXCEPT
                      ![i].questions = Append(@, question),
                      ![i].current_round = round_type ]
        /\ UNCHANGED << variant, coding, now, candidate_status, next_uuid, req,
                        requests >>

NextExclude ==
    \/ \E generated \in GeneratedTexts : ExcludeStart(generated)
    \/ \E round_type \in { "Technical", "HR" }, generated \in GeneratedTexts :
            ExcludeSubmit(round_type, generated)

SpecExclude == InitExclude /\ [][NextExclude]_vars

\* ---------------------------------------------------------------- the Clock

\* The sessions whose time is checked: duration in minutes, start time and
\* processing overhead in time units.
ClockDurations == { 1, 2, 5 }
ClockStarts == { 0, 7 }
ClockOverheads == { 0, 15, 40 }

InitClock ==
    /\ variant \in Variants
    /\ coding = FALSE
    /\ \E start_time \in ClockStarts, duration \in ClockDurations,
          processing \in ClockOverheads :
            /\ now = start_time
            /\ sessions = << SessionDoc(duration, "medium", << >>, processing,
                                        start_time) >>
    /\ candidate_status = "joined"
    /\ next_uuid = 1
    /\ req = [ c \in Clients |-> IdleReq ]
    /\ requests = 0
    /\ response = NoTime

\* Time passes until the check is made.
ClockAdvance ==
    /\ now < MaxNow
    /\ response = NoTime
    /\ now' = now + 1
    /\ UNCHANGED << variant, coding, sessions, candidate_status, next_uuid, req,
                    requests, response >>

\* check_time / check_candidate_time: the clock of the
\* stored session is returned.
ClockCheck ==
    /\ response' = check_time_status(sessions[1].started_at,
                                     sessions[1].duration_minutes,
                                     sessions[1].processing_time_total, now)
    /\ UNCHANGED << variant, coding, now, sessions, candidate_status, next_uuid,
                    req, requests >>

NextClock == ClockAdvance \/ ClockCheck

SpecClock == InitClock /\ [][NextClock]_vars

\* ------------------------------------------- the Clock under two overheads

\* Two sessions that differ in their processing overhead only, the first
\* with the smaller one.
InitOverhead ==
    /\ variant \in Variants
    /\ coding = FALSE
    /\ \E start_time \in ClockStarts, duration \in ClockDurations,
          o1 \in ClockOverheads, o2 \in ClockOverheads :
            /\ o1 < o2
            /\ now = start_time
            /\ sessions = << SessionDoc(duration, "medium", << >>, o1, start_time),
                             SessionDoc(duration, "medium", << >>, o2, start_time) >>
    /\ candidate_status = "joined"
    /\ next_uuid = 1
    /\ req = [ c \in Clients |-> IdleReq ]
    /\ requests = 0
    /\ response = << >>

\* Time passes until the clocks are read.
OverheadAdvance ==
    /\ now < MaxNow
    /\ response = << >>
    /\ now' = now + 1
    /\ UNCHANGED << variant, coding, sessions, candidate_status, next_uuid, req,
                    requests, response >>

\* The clocks of both sessions are read at the same wall time.
OverheadCheck ==
    /\ response' = [ s \in DOMAIN sessions |->
                        check_time_status(sessions[s].started_at,
                                          sessions[s].duration_minutes,
                                          sessions[s].processing_time_total, now) ]
    /\ UNCHANGED << variant, coding, now, sessions, candidate_status, next_uuid,
                    req, requests >>

NextOverhead == OverheadAdvance \/ OverheadCheck

SpecOverhead == InitOverhead /\ [][NextOverhead]_vars

\* ----------------------------------------------------------- properties

\* qid names the current unanswered question of doc: questions[len(responses)]
\* counted from 0.
InTurn(doc, qid) ==
    /\ Len(doc.responses) < Len(doc.questions)
    /\ doc.questions[Len(doc.responses) + 1].question_id = qid

\* The step in which the submit served in slot c stores its response.
Appends(c) ==
    /\ req[c].pc \in { "gather", "code_eval" }
    /\ req'[c].pc \in { "complete", "cutoff", "set_hr", "seq_gen", "push_q" }

\* The step in which the request served in slot c returns.
Returns(c) ==
    /\ req[c].op # "idle"
    /\ req' = IF c = "c1" THEN [ c1 |-> req["c2"], c2 |-> IdleReq ]
                          ELSE [ req EXCEPT ![c] = IdleReq ]

\* The Technical responses a submit counts: those of the session it read and
\* its own.
TechnicalOf(r) ==
    RoundResponses(Append(r.snap.responses, ResponseDoc(r.question_id, r.overall)),
                   r.snap.questions, "Technical")

\* C1: of two submits that both reference the session's current unanswered
\* question at most one appends a Response: a submit that was in turn when it
\* read the session stores its Response only if it is still in turn.
C1_SingleWriter ==
    [][ \A c \in Clients :
            Appends(c) /\ InTurn(req[c].snap, req[c].question_id)
                => InTurn(sessions[req[c].sid], req[c].question_id) ]_vars

\* C2: a submit whose questionId names a question of the session other than
\* the current unanswered one appends no Response: every Response is stored by
\* a submit whose question was in turn in the session it read.
C2_OutOfTurnRejected ==
    [][ \A c \in Clients :
            Appends(c) => InTurn(req[c].snap, req[c].question_id) ]_vars

NoDuplicateResponse(doc) ==
    \A i, j \in DOMAIN doc.responses :
        doc.responses[i].question_id = doc.responses[j].question_id => i = j

ResponsesNameQuestions(doc) ==
    \A i \in DOMAIN doc.responses :
        \E k \in DOMAIN doc.questions :
            doc.questions[k].question_id = doc.responses[i].question_id

ResponsesKept(old, new) ==
    /\ Len(old.responses) <= Len(new.responses)
    /\ \A i \in DOMAIN old.responses : new.responses[i] = old.responses[i]

\* C3: no two Responses of a session carry the same question identifier,
\* every Response names a Question stored in the session, and no stored
\* Response is ever changed or removed.
C3_ResponsesOncePerQuestion ==
    /\ [](\A s \in DOMAIN sessions :
            NoDuplicateResponse(sessions[s]) /\ ResponsesNameQuestions(sessions[s]))
    /\ [][ \A s \in DOMAIN sessions : ResponsesKept(sessions[s], sessions'[s]) ]_vars

\* C4: in every reachable state len(responses) <= len(questions).
C4_ResponsesWithinQuestions ==
    \A s \in DOMAIN sessions :
        Len(sessions[s].responses) <= Len(sessions[s].questions)

\* C5: while no operation is in flight, a session in progress holds exactly
\* one question more than responses and a completed session none.
C5_OneQuestionAhead ==
    (\A c \in Clients : req[c].op = "idle") =>
        \A s \in DOMAIN sessions :
            Len(sessions[s].questions) - Len(sessions[s].responses)
                = IF sessions[s].status = "in_progress" THEN 1 ELSE 0

\* The fields a completed session is to keep.
Frozen(doc) ==
    << doc.questions, doc.responses, doc.current_round, doc.difficulty,
       doc.technical_score, doc.hr_score, doc.processing_time_total,
       doc.completed_at >>

\* C6: once a session is completed no step changes its questions, responses,
\* round, difficulty, round scores, processing overhead or completion time.
C6_CompletedImmutable ==
    [][ \A s \in DOMAIN sessions :
            sessions[s].status = "completed"
                => Frozen(sessions'[s]) = Frozen(sessions[s]) ]_vars

\* C7: the stored round starts as Technical and changes only from Technical
\* to HR, hence at most once and never back.
C7_RoundOnlyAdvances ==
    [][ /\ \A s \in DOMAIN sessions :
              \/ sessions'[s].current_round = sessions[s].current_round
              \/ /\ sessions[s].current_round = "Technical"
                 /\ sessions'[s].current_round = "HR"
        /\ \A s \in DOMAIN sessions' \ DOMAIN sessions :
              sessions'[s].current_round = "Technical" ]_vars

\* C7 witness: a session that advanced to HR was completed afterwards.
C7_Witness ==
    \E s \in DOMAIN sessions :
        /\ sessions[s].current_round = "HR"
        /\ sessions[s].status = "completed"
        /\ Len(sessions[s].responses) >= 3

\* The submit is past the round gate and about to end the session for a
\* missed cutoff or to change the round.
GateActed(r) == r.op = "submit" /\ r.pc \in { "cutoff", "set_hr" }

\* The active elapsed time of a submit, in time units, taken from the wall
\* clock at its re-check, the session's start, the overhead it read and its
\* own processing cost.
ActiveAfter(r) ==
    Max(0, (r.time_status.checked_at - r.snap.started_at)
           - (r.snap.processing_time_total + r.processing_time))

StoredTechnical(doc) == RoundResponses(doc.responses, doc.questions, "Technical")

\* C8 as stated: a submit changes the round or ends the session for a missed
\* cutoff only if at least 3 Technical Responses exist and the active
\* elapsed time after its own processing cost is at least 0.6 x duration.
C8_GateNeedsExactElapsed ==
    \A c \in Clients :
        GateActed(req[c]) =>
            /\ Len(StoredTechnical(sessions[req[c].sid])) >= 3
            /\ 10 * ActiveAfter(req[c])
                  >= 6 * req[c].snap.duration_minutes * UnitsPerMinute

\* C8 amended: ... only if at least 3 Technical Responses exist and the
\* active elapsed time after its own processing cost, rounded to one decimal
\* of a minute, is at least 0.6 x duration.
C8_GateNeedsRoundedElapsed ==
    \A c \in Clients :
        GateActed(req[c]) =>
            /\ Len(StoredTechnical(sessions[req[c].sid])) >= 3
            /\ RoundHalfEven(10 * ActiveAfter(req[c]), UnitsPerMinute)
                  >= 6 * req[c].snap.duration_minutes

\* C8 witness: the gate acted in a submit whose own processing cost counted.
C8_Witness ==
    \E c \in Clients :
        /\ GateActed(req[c])
        /\ req[c].processing_time > 0
        /\ Len(StoredTechnical(sessions[req[c].sid])) = 3

\* The round gate is evaluated by the step that stores the response: the
\* round read is Technical, the clock has not expired and the guard holds.
GateEvaluated(r) ==
    /\ r.snap.current_round = "Technical"
    /\ ~r.time_status.is_expired
    /\ Len(TechnicalOf(r)) >= 3
    /\ r.time_status.elapsed_minutes >= 6 * r.snap.duration_minutes

\* C9: when the gate is evaluated and the Technical mean is below 70, the
\* submit completes the session, persists technical_score, appends no
\* question, and the reason is technical_cutoff_not_met both in the result
\* returned and on the stored session.
C9_CutoffTerminates ==
    [][ \A c \in Clients :
          LET r == req[c]
              s == r.sid
          IN  /\ ( /\ Appends(c)
                   /\ GateEvaluated(req'[c])
                   /\ calculate_round_score(TechnicalOf(req'[c])) < TECH_CUTOFF )
                    => req'[c].pc = "cutoff"
              /\ (Returns(c) /\ r.pc = "cutoff") =>
                    /\ sessions'[s].status = "completed"
                    /\ sessions'[s].technical_score
                          = calculate_round_score(TechnicalOf(r))
                    /\ sessions'[s].questions = sessions[s].questions
                    /\ response'.reason = "technical_cutoff_not_met"
                    /\ sessions'[s].termination_reason = "technical_cutoff_not_met"
      ]_vars

\* C10: when the gate is evaluated and the Technical mean is at least 70, the
\* submit sets the round to HR, persists technical_score, and appends exactly
\* one question, of round HR and produced by a generation call made for the
\* HR round.
C10_HRQuestionFromHRCall ==
    [][ \A c \in Clients :
          LET r == req[c]
              s == r.sid
          IN  /\ ( /\ Appends(c)
                   /\ GateEvaluated(req'[c])
                   /\ calculate_round_score(TechnicalOf(req'[c])) >= TECH_CUTOFF )
                    => req'[c].pc = "set_hr"
              /\ (r.pc = "set_hr" /\ req'[c].pc \in { "hr_gen", "seq_gen", "push_q" }) =>
                    /\ sessions'[s].current_round = "HR"
                    /\ sessions'[s].technical_score
                          = calculate_round_score(TechnicalOf(r))
                    /\ sessions'[s].questions = sessions[s].questions
              /\ ( /\ Returns(c)
                   /\ r.pc \in { "hr_gen", "seq_gen", "push_q" }
                   /\ r.snap.current_round = "Technical"
                   /\ r.current_round = "HR" ) =>
                    /\ Len(sessions'[s].questions) = Len(sessions[s].questions) + 1
                    /\ \A i \in DOMAIN sessions[s].questions :
                          sessions'[s].questions[i] = sessions[s].questions[i]
                    /\ sessions'[s].questions[Len(sessions'[s].questions)].round = "HR"
                    /\ sessions'[s].questions[Len(sessions'[s].questions)].question = "HR"
      ]_vars

\* C10 witness: a session of coding questions passed the gate at exactly the
\* cutoff and holds the HR question as its newest.
C10_Witness ==
    /\ coding
    /\ \A c \in Clients : req[c].op = "idle"
    /\ \E s \in DOMAIN sessions :
        /\ sessions[s].current_round = "HR"
        /\ sessions[s].technical_score = TECH_CUTOFF
        /\ Len(sessions[s].questions) = Len(sessions[s].responses) + 1
        /\ sessions[s].questions[Len(sessions[s].questions)].round = "HR"
        /\ sessions[s].questions[Len(sessions[s].questions)].question = "HR"

\* C11: after every terminating operation -- a submit that finds the time
\* expired, a submit that misses the cutoff, or an explicit end -- the session
\* is completed and both technical_score and hr_score are set.
C11_TerminalScoresSet ==
    [][ \A c \in Clients :
            (Returns(c) /\ req[c].pc \in { "complete", "cutoff", "end_complete" }) =>
                /\ sessions'[req[c].sid].status = "completed"
                /\ sessions'[req[c].sid].technical_score # None
                /\ sessions'[req[c].sid].hr_score # None ]_vars

\* The time a submit has left, in time units, once its response is stored,
\* taken from the session it read and its own processing cost.
RemainingAfter(r) ==
    Max(0, r.snap.duration_minutes * UnitsPerMinute - ActiveAfter(r))

\* C12: if no time remains once the Response is stored and the submit's
\* processing time added to the overhead, the submit completes the session,
\* returns reason time_expired without a next question and appends no
\* Question, whatever the round gate would decide.
C12_ExpiryBeforeGate ==
    [][ \A c \in Clients :
          LET r == req[c]
              s == r.sid
          IN  /\ (Appends(c) /\ RemainingAfter(req'[c]) <= 0)
                    => /\ req'[c].pc = "complete"
                       /\ sessions'[s].questions = sessions[s].questions
              /\ (Returns(c) /\ r.pc = "complete") =>
                    /\ sessions'[s].status = "completed"
                    /\ sessions'[s].questions = sessions[s].questions
                    /\ response' = Result("time_expired", 0)
      ]_vars

\* C12 witness: a submit found the time expired while the gate's guard held
\* and the Technical score was below the cutoff.
C12_Witness ==
    \E c \in Clients :
        /\ req[c].op = "submit" /\ req[c].pc = "complete"
        /\ req[c].snap.current_round = "Technical"
        /\ GateGuard(req[c].time_status.elapsed_minutes,
                     req[c].snap.duration_minutes, TechnicalOf(req[c]))
        /\ calculate_round_score(TechnicalOf(req[c])) < TECH_CUTOFF

\* Spec reaches the states SpecGate begins with (there with three requests
\* counted).
GateSessionReached ==
    /\ now = 0
    /\ \A c \in Clients : req[c].op = "idle"
    /\ requests = 3
    /\ next_uuid = 4
    /\ response = Result("next_question", 3)
    /\ candidate_status = IF variant = "candidate" THEN "joined" ELSE "invited"
    /\ sessions = << GateSession(variant, coding, 5, 700, 400) >>

\* C13: once the round is HR no submit ends the session for a missed
\* cutoff; an HR session is completed only by a submit that finds the time
\* expired or by an explicit end.
C13_NoCutoffInHR ==
    [][ /\ \A c \in Clients :
              (Returns(c) /\ req[c].pc = "cutoff")
                  => sessions[req[c].sid].current_round # "HR"
        /\ \A s \in DOMAIN sessions :
              ( /\ sessions[s].current_round = "HR"
                /\ sessions[s].status = "in_progress"
                /\ sessions'[s].status = "completed" )
                  => \E c \in Clients :
                        /\ Returns(c)
                        /\ req[c].sid = s
                        /\ req[c].pc \in { "complete", "end_complete" } ]_vars

\* A start request arrives at client c and goes on to create a session.
StartTaken(c) == req[c].op = "idle" /\ req'[c].op = "start"

\* C14: a start request received while the identity's session is in
\* progress creates no session: it is not taken on to generate a first
\* question and insert a document, and the stored sessions stay as they are.
C14_StartResumes ==
    [][ \A c \in Clients :
            ( /\ StartTaken(c)
              /\ \E s \in DOMAIN sessions : sessions[s].status = "in_progress" )
                => FALSE ]_vars

\* C15: of the start requests made for one resume token while no session
\* exists for it, at most one creates a session: a start whose lookup found
\* no session inserts one only if there still is none.
C15_OneSessionPerToken ==
    [][ \A c \in Clients :
            ( /\ variant = "candidate"
              /\ Returns(c)
              /\ req[c].op = "start"
              /\ req[c].snap = NoSnap
              /\ Len(sessions') > Len(sessions) )
                => sessions = << >> ]_vars

\* C16: whenever an external call of the deep evaluation failed or timed
\* out, the evaluation the submit stores is the instant evaluation, scores
\* and feedback, with the phase tag deep_failed.
C16_DeepFailureFallsBack ==
    \A c \in Clients :
        ( /\ req[c].op = "submit" /\ req[c].pc = "save"
          /\ (req[c].depth_text = "" \/ req[c].feedback_text = "") )
            => req[c].evaluation = [ req[c].instant_eval EXCEPT !.phase = "deep_failed" ]

\* next(s) for a score s in tenths of a point.
NextTier(s) == IF s >= 800 THEN "hard" ELSE IF s >= 500 THEN "medium" ELSE "easy"

\* A submit of client c returns with a next question.
PushesQuestion(c) ==
    /\ Returns(c)
    /\ req[c].op = "submit"
    /\ req[c].pc \in { "hr_gen", "seq_gen", "push_q" }

\* C17: when a submit appends the next question, the difficulty recorded on
\* that question and the difficulty stored on the session both are next(s),
\* s being the overall score stored in the response the submit appended,
\* whatever the session's difficulty was before.
C17_DifficultyFollowsScore ==
    [][ \A c \in Clients : PushesQuestion(c) =>
            LET s == req[c].sid
                qs == sessions'[s].questions
            IN  /\ Len(qs) = Len(sessions[s].questions) + 1
                /\ \E i \in DOMAIN sessions[s].responses :
                      /\ sessions[s].responses[i].question_id = req[c].question_id
                      /\ sessions[s].responses[i].overall = req[c].overall
                /\ qs[Len(qs)].difficulty = NextTier(req[c].overall)
                /\ sessions'[s].difficulty = NextTier(req[c].overall) ]_vars

\* A question of difficulty hard was appended after one of difficulty easy,
\* and another of difficulty medium after one of difficulty easy.
C17_Witness ==
    \E s \in DOMAIN sessions :
        LET qs == sessions[s].questions
        IN  /\ sessions[s].difficulty = qs[Len(qs)].difficulty
            /\ \E i \in 1 .. Len(qs) - 1 : qs[i].difficulty = "easy" /\ qs[i + 1].difficulty = "hard"
            /\ \E i \in 1 .. Len(qs) - 1 : qs[i].difficulty = "easy" /\ qs[i + 1].difficulty = "medium"

\* C18: the question a Selector call returns, generated or taken from the
\* fallback pool, differs from every entry of the exclusion list passed in
\* that call.
C18_SelectorAvoidsExclusions ==
    response.question \notin Range(response.previous_questions)

\* Reached without any repeated generated text: the seventh call of a round
\* in which every generation failed returns the first fallback question
\* again.
FallbackPoolExhausted ==
    /\ Range(sessions[1].questions) = Range(fallback_questions("Technical"))
    /\ Len(sessions[1].questions) = 7

\* The questions stored for the candidate's session, for the peers of its
\* assessment and for the candidate's own completed sessions.
OwnStored ==
    UNION { Range(sessions[i].questions) :
            i \in { j \in DOMAIN sessions :
                        sessions[j].candidate_token = Candidate.unique_token } }
PeersStored ==
    UNION { Range(sessions[i].questions) :
            i \in { j \in DOMAIN sessions :
                        /\ sessions[j].interview_session_id = Candidate.interview_session_id
                        /\ sessions[j].candidate_token # Candidate.unique_token } }
PriorStored ==
    UNION { Range(sessions[i].questions) :
            i \in { j \in DOMAIN sessions :
                        /\ sessions[j].candidate_email = Candidate.email
                        /\ sessions[j].status = "completed" } }

\* C19: in every Selector call of start and of submit the exclusion list
\* holds every question stored in this session, every question asked to the
\* other candidates of the assessment and every question of the candidate's
\* own prior sessions.
C19_ExclusionsComplete ==
    [][ response' # response =>
            (OwnStored \cup PeersStored \cup PriorStored)
                \subseteq Range(response'.previous_questions) ]_vars

\* The active and remaining time, in time units, of the stored session at the
\* moment of the last check.
ActiveElapsed ==
    Max(0, (response.checked_at - sessions[1].started_at)
           - sessions[1].processing_time_total)
Remaining == Max(0, sessions[1].duration_minutes * UnitsPerMinute - ActiveElapsed)

Checked == response # NoTime

\* C20 as stated: the Clock returns the active elapsed time, the remaining
\* time and the progress themselves; expired iff remaining <= 0, wrap-up iff
\* 0 < remaining < 2; never both.
C20_ClockExact ==
    Checked =>
        /\ response.elapsed_minutes * UnitsPerMinute = ActiveElapsed * 10
        /\ response.remaining_minutes * UnitsPerMinute = Remaining * 10
        /\ response.is_expired <=> response.remaining_minutes <= 0
        /\ response.is_wrap_up <=>
              (0 < response.remaining_minutes /\ response.remaining_minutes < 20)
        /\ response.progress_pct * sessions[1].duration_minutes * UnitsPerMinute
              = Min(1000 * sessions[1].duration_minutes * UnitsPerMinute,
                    1000 * ActiveElapsed)
        /\ ~(response.is_expired /\ response.is_wrap_up)

\* C20: the Clock computes active = max(0, wall - overhead) and remaining =
\* max(0, duration - active); expired iff remaining <= 0 and wrap-up iff
\* 0 < remaining < 2 on these values; it returns the elapsed and remaining
\* minutes rounded to one decimal and progress = min(100, 100 active /
\* duration rounded to one decimal); expired and wrap-up are never both true.
C20_ClockRounded ==
    Checked =>
        /\ response.elapsed_minutes = RoundHalfEven(ActiveElapsed * 10, UnitsPerMinute)
        /\ response.remaining_minutes = RoundHalfEven(Remaining * 10, UnitsPerMinute)
        /\ response.is_expired <=> Remaining <= 0
        /\ response.is_wrap_up <=> (0 < Remaining /\ Remaining < 2 * UnitsPerMinute)
        /\ response.progress_pct
              = Min(1000, RoundHalfEven(ActiveElapsed * 1000,
                              sessions[1].duration_minutes * UnitsPerMinute))
        /\ ~(response.is_expired /\ response.is_wrap_up)

\* A check in the wrap-up window of a session with overhead, whose returned
\* minutes are rounded values.
C20_Witness ==
    /\ Checked
    /\ sessions[1].processing_time_total > 0
    /\ response.is_wrap_up
    /\ response.elapsed_minutes * UnitsPerMinute # ActiveElapsed * 10
    /\ response.progress_pct < 1000

\* C21 as stated: with the wall time and the duration fixed, the larger
\* overhead gives a strictly smaller active elapsed time.
C21_OverheadStrictlyDecreases ==
    response # << >> => response[2].active < response[1].active

\* C21: with the wall time and the duration fixed, the larger overhead gives
\* an active elapsed time that is no larger, and strictly smaller wherever
\* the smaller overhead leaves a positive active elapsed time (the value is
\* cut off at 0).
C21_OverheadDecreasesUntilZero ==
    response # << >> =>
        /\ response[2].active <= response[1].active
        /\ response[1].active > 0 => response[2].active < response[1].active

\* Both clocks read while the smaller overhead leaves active time and the
\* larger one does not, and read while both leave active time.
C21_Witness ==
    /\ response # << >>
    /\ sessions[1].processing_time_total > 0
    /\ response[1].active > 0
    /\ response[2].active < response[1].active
    /\ response[2].active = Max(0, response[1].active
                                   - (sessions[2].processing_time_total
                                      - sessions[1].processing_time_total))

\* C22: a submit whose concurrent calls raised (no pre-generated question)
\* still stores its response with the evaluation it has, does not push a
\* pre-generated question, and, unless the session ends, returns the next
\* question obtained by a later generation call, never an error.
C22_DegradedSubmitReturnsQuestion ==
    [][ \A c \in Clients :
          LET r == req[c]
              s == r.sid
          IN  /\ (Appends(c) /\ r.pc = "gather" /\ req'[c].next_q_data = NoQ) =>
                    /\ sessions'[s].responses =
                          Append(sessions[s].responses,
                                 ResponseDoc(r.question_id, req'[c].overall))
                    /\ req'[c].pc # "push_q"
              /\ ( /\ Returns(c)
                   /\ r.op = "submit"
                   /\ r.next_q_data = NoQ
                   /\ r.pc \in { "hr_gen", "seq_gen" } ) =>
                    /\ response'.reason = "next_question"
                    /\ sessions'[s].questions # sessions[s].questions
                    /\ sessions'[s].questions[Len(sessions'[s].questions)].question_id
                          = response'.next_question ]_vars

\* C28: a submit that fails after its response was written leaves the
\* session, if still in progress, with a current unanswered question
\* (fewer responses than questions), and a start that arrives while no other
\* request is in flight resumes the session in progress instead of going on
\* to create one.
C28_FailedSubmitKeepsQuestion ==
    [][ \A c \in Clients :
          /\ (Returns(c) /\ req[c].op = "submit" /\ response'.reason = "error") =>
                LET doc == sessions'[req[c].sid]
                IN  doc.status = "in_progress" => Len(doc.responses) < Len(doc.questions)
          /\ ( /\ StartTaken(c)
               /\ \A d \in Clients : req[d].op = "idle" ) =>
                \A s \in DOMAIN sessions : sessions[s].status # "in_progress" ]_vars

\* The second half of C28 alone.
StartAfterFailureResumes ==
    [][ \A c \in Clients :
          ( /\ StartTaken(c)
            /\ \A d \in Clients : req[d].op = "idle" ) =>
                \A s \in DOMAIN sessions : sessions[s].status # "in_progress" ]_vars

\* C23: no message sent to a candidate connection reveals an HR observer:
\* none tells of an HR connection joining or leaving, none lists an HR
\* connection among the participants, and no relayed message names an HR
\* connection as its sender.
C23_HRInvisible ==
    \A m \in response :
        Role(m.to) = "candidate" =>
            /\ m.type \in { "user_joined", "user_left" } => Role(m.from) # "hr"
            /\ \A cid \in m.participants : Role(cid) # "hr"
            /\ m.type \in RelayTypes => Role(m.from) # "hr"

\* C24: in every completed session the stored technical_score is the
\* one-decimal mean of overall over all stored responses to Technical
\* questions and the stored hr_score that mean over all stored responses to
\* HR questions, 0 where there are none.
C24_ScoresAggregateStored ==
    \A s \in DOMAIN sessions :
        sessions[s].status = "completed" =>
            /\ sessions[s].technical_score =
                  calculate_round_score(RoundResponses(sessions[s].responses,
                                                       sessions[s].questions, "Technical"))
            /\ sessions[s].hr_score =
                  calculate_round_score(RoundResponses(sessions[s].responses,
                                                       sessions[s].questions, "HR"))

\* C25: the processing time a submit adds to the session's stored overhead
\* (its one $inc, req[c].processing_time) is the wall-clock time from the
\* arrival of the request to the return of its last external call, the HR
\* regeneration or the sequential generation included.
C25_OverheadCoversWholeSubmit ==
    [][ \A c \in Clients :
          ( /\ Returns(c)
            /\ req[c].op = "submit"
            /\ req[c].pc \in { "hr_gen", "seq_gen" } ) =>
                req[c].processing_time = now - req[c].processing_start ]_vars

\* The wait asyncio.wait_for allows a deep evaluation (15 seconds), in time
\* units, rounded up.
JoinTimeout == 8

\* Every submit in flight returns.
SubmitReturns ==
    \A c \in Clients : (req[c].op = "submit") ~> (req[c].op = "idle")

\* No submit is still waiting for its two concurrent calls later than
\* JoinTimeout after it arrived.
JoinBounded ==
    \A c \in Clients :
        req[c].pc = "gather" => now - req[c].processing_start <= JoinTimeout

\* C26: every submit eventually returns, and the join of its two concurrent
\* calls is given up after a bounded wait (JoinTimeout), however long the
\* calls take to respond.
C26_SubmitReturnsAfterBoundedJoin == SubmitReturns /\ []JoinBounded

\* C27: a session whose round is HR has a stored technical_score, and it is
\* at least TECH_CUTOFF, whatever submits and completions followed the gate.
C27_HRKeepsCutoffMet ==
    \A s \in DOMAIN sessions :
        sessions[s].current_round = "HR" =>
            /\ sessions[s].technical_score # None
            /\ sessions[s].technical_score >= TECH_CUTOFF

\* C29: the stored processing time of a session never exceeds the wall-clock
\* time since its started_at (so the time it is subtracted from covers it,
\* and no interval is counted twice).
C29_OverheadWithinWallTime ==
    \A s \in DOMAIN sessions :
        sessions[s].processing_time_total <= now - sessions[s].started_at

\* ------------------------------------------------------ the practice mode

\* PracticeModeService keeps its sessions in memory, _active_sessions, here
\* the variable sessions: a function from session ids to sessions.  Every
\* endpoint is a coroutine of the one event loop and none of the service's
\* methods suspends before it has written (the call of
\* ai_service.evaluate_answer raises TypeError on its keyword arguments
\* before any coroutine exists, and the except branch computes the score), so
\* each call is one step.  response holds the result of the last call; the
\* other variables are not used.

\* Questions of a practice topic.
PracticeQuestions == 2
\* metrics_history entries a session collects (the code trims at 300).
MaxSnapshots == 2
\* Session ids start_practice_session gives out, an id nothing is stored
\* under, and the id the mock router stores its tracker under.
PracticeIds == { "practice_u_1" }
UnknownIds == { "practice_u_2" }
TrackerIds == { "mock_1" }
\* Words of a submitted answer, and of the partial text sent with a metrics
\* update (0: no text).
AnswerWords == { 10, 200 }
PartialWords == { 0, 80 }

\* The shuffled question list: a permutation of the topic's questions.
Shuffles ==
    { q \in [ 1 .. PracticeQuestions -> 1 .. PracticeQuestions ] :
        \A i, j \in 1 .. PracticeQuestions : q[i] = q[j] => i = j }

\* The session start_practice_session stores.  Of live_metrics only
\* answer_completeness is kept (tenths): without video and audio the other
\* metrics keep their initial values.
PracticeSession(questions, t) ==
    [ status |-> "active", started_at |-> t, ended_at |-> None,
      questions |-> questions, current_question_idx |-> 0,
      answers |-> << >>, metrics_history |-> << >>,
      live_metrics |-> [ answer_completeness |-> 0 ],
      scores |-> << >> ]

\* The tracker the mock router's metrics endpoint stores in the same
\* dictionary: it has no "scores" key.
PracticeTracker(t) ==
    [ status |-> "active", started_at |-> t,
      questions |-> << >>, current_question_idx |-> 0,
      answers |-> << >>, metrics_history |-> << >>,
      live_metrics |-> [ answer_completeness |-> 0 ] ]

\* What a call of the service returns: error is "" where the call succeeded.
PracticeResult(op, session_id, error, score, is_complete) ==
    [ op |-> op, session_id |-> session_id, error |-> error,
      score |-> score, is_complete |-> is_complete ]

\* A call's outcome: the dictionary it leaves and what it returns.
Outcome(active_sessions, result) ==
    [ active_sessions |-> active_sessions, result |-> result ]

Store(active_sessions, session_id, session) ==
    [ id \in DOMAIN active_sessions \cup { session_id } |->
        IF id = session_id THEN session ELSE active_sessions[id] ]

\* The score of the except branch: min(80, max(20, word_count * 0.5 + 30)),
\* in tenths.
fallback_evaluation(word_count) == Min(800, Max(200, word_count * 5 + 300))

\* PracticeModeService.submit_answer.
submit_answer(active_sessions, session_id, word_count) ==
    IF \/ session_id \notin DOMAIN active_sessions
       \/ active_sessions[session_id].status # "active"
    THEN Outcome(active_sessions,
                 PracticeResult("submit", session_id, "Session not active", None, FALSE))
    ELSE
        LET session == active_sessions[session_id]
            idx == session.current_question_idx
        IN  IF idx >= Len(session.questions)
            THEN Outcome(active_sessions,
                         PracticeResult("submit", session_id, "No more questions",
                                        None, FALSE))
            ELSE
                LET score == fallback_evaluation(word_count)
                    answer_record ==
                        [ question |-> session.questions[idx + 1],
                          score |-> score,
                          metrics_snapshot |-> session.live_metrics ]
                IN  Outcome([ active_sessions EXCEPT ![session_id] =
                                [ session EXCEPT
                                    !.answers = Append(@, answer_record),
                                    !.scores = Append(@, score),
                                    !.current_question_idx = idx + 1 ] ],
                            PracticeResult("submit", session_id, "", score,
                                           idx + 1 >= Len(session.questions)))

\* PracticeModeService.update_live_metrics with a partial text of word_count
\* words and neither video nor audio: answer_completeness is
\* min(100, word_count / 80 * 100), smoothed with alpha = 0.3 and rounded to
\* one decimal; a snapshot is appended.
update_live_metrics(active_sessions, session_id, word_count) ==
    IF \/ session_id \notin DOMAIN active_sessions
       \/ active_sessions[session_id].status # "active"
    THEN Outcome(active_sessions,
                 PracticeResult("metrics", session_id, "Session not active", None, FALSE))
    ELSE
        LET session == active_sessions[session_id]
            old_val == session.live_metrics.answer_completeness
            current == IF word_count > 0
                       THEN Min(1000, (word_count * 1000) \div 80) ELSE old_val
            smoothed == RoundHalfEven(3 * current + 7 * old_val, 10)
            current_metrics == [ answer_completeness |-> smoothed ]
            snapshot == [ metrics |-> current_metrics,
                          question_idx |-> session.current_question_idx ]
        IN  Outcome([ active_sessions EXCEPT ![session_id] =
                        [ session EXCEPT
                            !.live_metrics = current_metrics,
                            !.metrics_history = Append(@, snapshot) ] ],
                    PracticeResult("metrics", session_id, "", None, FALSE))

\* PracticeModeService.end_practice_session: the session is marked completed,
\* then its scores are read; on a session without scores that raises KeyError
\* and the mark stays.  The summary returned carries round(mean(scores), 1).
end_practice_session(active_sessions, session_id) ==
    IF session_id \notin DOMAIN active_sessions
    THEN Outcome(active_sessions,
                 PracticeResult("end", session_id, "Session not found", None, FALSE))
    ELSE
        LET session == active_sessions[session_id]
            ended == [ id \in DOMAIN active_sessions |->
                        IF id # session_id THEN active_sessions[id]
                        ELSE [ f \in DOMAIN session \cup { "ended_at" } |->
                                IF f = "status" THEN "completed"
                                ELSE IF f = "ended_at" THEN now
                                ELSE session[f] ] ]
        IN  IF "scores" \notin DOMAIN session
            THEN Outcome(ended,
                         PracticeResult("end", session_id, "KeyError", None, FALSE))
            ELSE
                LET scores == session.scores
                    total == SumOverall([ i \in 1 .. Len(scores) |->
                                            [ overall |-> scores[i] ] ])
                    overall_score == IF Len(scores) > 0
                                     THEN RoundHalfEven(total, Len(scores)) ELSE 0
                IN  Outcome(ended,
                            PracticeResult("end", session_id, "", overall_score, TRUE))

InitPractice ==
    /\ variant = "mock"
    /\ coding = FALSE
    /\ now = 0
    /\ sessions = << >>
    /\ candidate_status = "invited"
    /\ next_uuid = 1
    /\ req = [ c \in Clients |-> IdleReq ]
    /\ requests = 0
    /\ response = PracticeResult("none", "", "", None, FALSE)

PracticeUnused ==
    UNCHANGED << variant, coding, now, candidate_status, next_uuid, req, requests >>

\* POST /start: a session is stored under its id (user and second of the
\* clock); one already stored under that id is replaced.
StartPractice(session_id, questions) ==
    /\ sessions' = Store(sessions, session_id, PracticeSession(questions, now))
    /\ response' = PracticeResult("start", session_id, "", None, FALSE)
    /\ PracticeUnused

\* POST /{session_id}/answer.
SubmitPractice(session_id, word_count) ==
    LET out == submit_answer(sessions, session_id, word_count)
    IN  /\ sessions' = out.active_sessions
        /\ response' = out.result
        /\ PracticeUnused

\* POST /{session_id}/metrics.
UpdateMetrics(session_id, word_count) ==
    /\ session_id \in DOMAIN sessions =>
            Len(sessions[session_id].metrics_history) < MaxSnapshots
    /\ LET out == update_live_metrics(sessions, session_id, word_count)
       IN  /\ sessions' = out.active_sessions
           /\ response' = out.result
    /\ PracticeUnused

\* POST /{session_id}/end.
EndPractice(session_id) ==
    LET out == end_practice_session(sessions, session_id)
    IN  /\ sessions' = out.active_sessions
        /\ response' = out.result
        /\ PracticeUnused

\* The mock router's practice metrics endpoint: it stores a tracker under
\* mock_<session id> where there is none, then updates its metrics.
MockPracticeMetrics(practice_id, word_count) ==
    /\ practice_id \in DOMAIN sessions =>
            Len(sessions[practice_id].metrics_history) < MaxSnapshots
    /\ LET tracked == IF practice_id \in DOMAIN sessions THEN sessions
                      ELSE Store(sessions, practice_id, PracticeTracker(now))
           out == update_live_metrics(tracked, practice_id, word_count)
       IN  /\ sessions' = out.active_sessions
           /\ response' = [ out.result EXCEPT !.op = "mock_metrics", !.error = "" ]
    /\ PracticeUnused

NextPractice ==
    \/ \E session_id \in PracticeIds, questions \in Shuffles :
            StartPractice(session_id, questions)
    \/ \E session_id \in PracticeIds \cup UnknownIds \cup TrackerIds,
          word_count \in AnswerWords :
            SubmitPractice(session_id, word_count)
    \/ \E session_id \in PracticeIds \cup UnknownIds \cup TrackerIds,
          word_count \in PartialWords :
            UpdateMetrics(session_id, word_count)
    \/ \E session_id \in PracticeIds \cup UnknownIds \cup TrackerIds :
            EndPractice(session_id)
    \/ \E practice_id \in TrackerIds, word_count \in PartialWords :
            MockPracticeMetrics(practice_id, word_count)

SpecPractice == InitPractice /\ [][NextPractice]_vars

\* A stored session's position agrees with its answers and scores.
PracticeConsistent(session) ==
    /\ "scores" \in DOMAIN session
    /\ session.current_question_idx = Len(session.answers)
    /\ Len(session.answers) = Len(session.scores)
    /\ session.current_question_idx <= Len(session.questions)

\* A submit that returns an error leaves the dictionary as it was.
RefusedSubmitChangesNothing ==
    [][ ( /\ response'.op = "submit"
          /\ response'.error # "" ) => sessions' = sessions ]_vars

\* The sessions start_practice_session stored are consistent.
StartedSessionsConsistent ==
    \A id \in DOMAIN sessions \cap PracticeIds : PracticeConsistent(sessions[id])

\* C30: in every in-memory practice session current_question_idx =
\* len(answers) = len(scores) <= len(questions), whatever calls were made,
\* and a submit that returns an error changes nothing.
C30_PracticeSessionsConsistent ==
    /\ [](\A id \in DOMAIN sessions : PracticeConsistent(sessions[id]))
    /\ RefusedSubmitChangesNothing
====
